---- MODULE Spec2Model ----
(***************************************************************************)
(* A model of the FlightSQL/ADBC bridge server (cmd/server/main.go,        *)
(* src/unnamed/part_000): the statement handle registry s.queries, the     *)
(* nine request handlers of DummyFlightSQLServer, and the result channel   *)
(* each Do* handler hands to its consumer.                                 *)
(*                                                                         *)
(* Requests are served by concurrently running tasks (one per request      *)
(* slot).  Spec follows the handlers up to their return, interleaved at    *)
(* the accesses to the shared map; StreamSpec follows the Do* requests     *)
(* through their producer and consumer.  The backend (the ADBC driver) is  *)
(* environment: its failures are nondeterministic inputs of the actions.   *)
(***************************************************************************)
EXTENDS Integers, Sequences, FiniteSets, TLC

\* ---------------------------------------------------------------- bounds

\* How many handles crypto/rand is asked for in one run.
MaxDescribes == 2
\* The largest number of batches a backend reader holds.
MaxBatches == 2

\* make([]byte, 16): the bytes of one handle.
HandleLen == 16

\* The tasks that serve requests side by side: a task takes the next request
\* when it has answered the last one.
Reqs == {"task-1", "task-2"}

\* ------------------------------------------------------- texts and handles

\* A query the backend can run (query_test.go), and one over a table that is not there.
QueryOK == "SELECT id, name FROM test_table ORDER BY id"
QueryMissing == "SELECT * FROM non_existent_table"
Texts == {QueryOK, QueryMissing}

\* A variant of SchemaQuery that submits the client's text as it is.
SchemaQuery_Unwrapped(q) == q

\* fmt.Sprintf("SELECT * FROM (%s) WHERE 1=0", cmd.GetQuery())
SchemaQuery(q) == "SELECT * FROM (" \o q \o ") WHERE 1=0"

HexDigit == <<"0", "1", "2", "3", "4", "5", "6", "7",
              "8", "9", "a", "b", "c", "d", "e", "f">>

\* hex.EncodeToString
RECURSIVE EncodeToString(_)
EncodeToString(bs) ==
    IF bs = <<>> THEN ""
    ELSE HexDigit[(Head(bs) \div 16) + 1] \o HexDigit[(Head(bs) % 16) + 1]
         \o EncodeToString(Tail(bs))

\* What rand.Read can fill handleBytes with (a sample of the 2^128 values).
RandBytes == {[i \in 1..HandleLen |-> 16 * b + 10] : b \in 1..MaxDescribes}

\* The handle of TestDoGetStatement_ErrorHandling, which no describe returns.
UnknownHandle == "unknown-handle-12345"

\* The handles a ticket may carry.
Handles == {EncodeToString(bs) : bs \in RandBytes} \cup {UnknownHandle}

\* flightsql.CreateStatementQueryTicket / GetStatementQueryTicket: the ticket
\* carries the handle bytes, and GetStatementHandle gives them back.
CreateStatementQueryTicket(handle) == <<"TicketStatementQuery", handle>>
GetStatementHandle(ticket) == ticket[2]

\* --------------------------------------------------------------- backend

ErrDatabase == "database is not initialized"
ErrUnknownHandle(handle) == "unknown statement handle: " \o handle

\* The steps of a request on the backend that can fail.
Faults == {"none", "Open", "NewStatement", "SetSqlQuery", "ExecuteQuery", "GetObjects"}
StatementFaults == Faults \ {"GetObjects"}
ObjectsFaults == {"none", "Open", "GetObjects"}

\* The backend runs QueryOK and the probe of QueryOK, and nothing else here.
BackendAccepts(sql) == sql \in {QueryOK, SchemaQuery(QueryOK)}

\* The columns of the reader the backend returns for sql.
BackendSchema(sql) == IF BackendAccepts(sql) THEN <<"id", "name">> ELSE <<>>

NoUse == [connOpen |-> 0, connClose |-> 0, stmtOpen |-> 0, stmtClose |-> 0,
          rdrOpen |-> 0, rdrRelease |-> 0]

\* A variant of ExecuteOnConn that opens a second connection and tries again
\* when the statement cannot be created.
ExecuteOnConn_Retrying(sql, fault) ==
    IF fault = "Open"
    THEN [err |-> "backend: Open", sqls |-> <<>>, schema |-> <<>>, use |-> NoUse]
    ELSE IF fault = "NewStatement"
    THEN [err |-> "backend: NewStatement", sqls |-> <<>>, schema |-> <<>>,
          use |-> [NoUse EXCEPT !.connOpen = 2]]
    ELSE IF fault = "SetSqlQuery"
    THEN [err |-> "backend: SetSqlQuery", sqls |-> <<sql>>, schema |-> <<>>,
          use |-> [NoUse EXCEPT !.connOpen = 1, !.stmtOpen = 1]]
    ELSE IF fault = "ExecuteQuery" \/ ~BackendAccepts(sql)
    THEN [err |-> "backend: ExecuteQuery", sqls |-> <<sql>>, schema |-> <<>>,
          use |-> [NoUse EXCEPT !.connOpen = 1, !.stmtOpen = 1]]
    ELSE [err |-> "", sqls |-> <<sql>>, schema |-> BackendSchema(sql),
          use |-> [NoUse EXCEPT !.connOpen = 1, !.stmtOpen = 1, !.rdrOpen = 1]]

\* db.Open, conn.NewStatement, stmt.SetSqlQuery(sql), stmt.ExecuteQuery: each
\* step once, the first failing step ends the sequence.  The result tells
\* what was opened and which texts reached the backend.
ExecuteOnConn(sql, fault) ==
    IF fault = "Open"
    THEN [err |-> "backend: Open", sqls |-> <<>>, schema |-> <<>>, use |-> NoUse]
    ELSE IF fault = "NewStatement"
    THEN [err |-> "backend: NewStatement", sqls |-> <<>>, schema |-> <<>>,
          use |-> [NoUse EXCEPT !.connOpen = 1]]
    ELSE IF fault = "SetSqlQuery"
    THEN [err |-> "backend: SetSqlQuery", sqls |-> <<sql>>, schema |-> <<>>,
          use |-> [NoUse EXCEPT !.connOpen = 1, !.stmtOpen = 1]]
    ELSE IF fault = "ExecuteQuery" \/ ~BackendAccepts(sql)
    THEN [err |-> "backend: ExecuteQuery", sqls |-> <<sql>>, schema |-> <<>>,
          use |-> [NoUse EXCEPT !.connOpen = 1, !.stmtOpen = 1]]
    ELSE [err |-> "", sqls |-> <<sql>>, schema |-> BackendSchema(sql),
          use |-> [NoUse EXCEPT !.connOpen = 1, !.stmtOpen = 1, !.rdrOpen = 1]]

\* defer conn.Close() and defer stmt.Close(): run once at the handler's return
\* for what was opened.
DeferClose(use) ==
    [use EXCEPT !.connClose = use.connOpen, !.stmtClose = use.stmtOpen]

\* A variant of DeferRelease that leaves the reader unreleased.
DeferRelease_Forgotten(use) == use

\* defer reader.Release() of the describing handlers.
DeferRelease(use) == [use EXCEPT !.rdrRelease = use.rdrOpen]

\* ------------------------------------------------------------ object trees

\* The largest object tree a batch of GetObjects holds.
MaxCatalogs == 2
MaxSchemas == 2
\* The numbers of tables a schema may hold.
TableCounts == {0, 2}

\* Concatenation of a sequence of sequences.
RECURSIVE Flat(_)
Flat(ss) == IF ss = <<>> THEN <<>> ELSE Head(ss) \o Flat(Tail(ss))

\* The shapes of a tree: per catalog, per schema, its number of tables.
SchemaShapes ==
    UNION {[1..n -> TableCounts] : n \in 0..MaxSchemas}
TreeShapes ==
    UNION {[1..n -> SchemaShapes] : n \in 0..MaxCatalogs}

\* The tree of a shape: catalogs, their schemas, their tables, each with its
\* name (and type), as the backend's introspection reports them.
TableOf(i, j, k) ==
    [name |-> "c" \o ToString(i) \o ".s" \o ToString(j) \o ".t" \o ToString(k),
     type |-> IF k % 2 = 1 THEN "TABLE" ELSE "VIEW"]
SchemaOf(i, j, n) ==
    [name |-> "c" \o ToString(i) \o ".s" \o ToString(j),
     tables |-> [k \in 1..n |-> TableOf(i, j, k)]]
CatalogOf(i, shape) ==
    [name |-> "c" \o ToString(i),
     schemas |-> [j \in 1..Len(shape) |-> SchemaOf(i, j, shape[j])]]
TreeOf(shape) == [i \in 1..Len(shape) |-> CatalogOf(i, shape[i])]

\* The offsets of an Arrow list array whose entries have the lengths lens:
\* Len(lens) + 1 numbers, from 0, each entry's range ending where the next
\* begins.
RECURSIVE SumTo(_, _)
SumTo(lens, k) == IF k = 0 THEN 0 ELSE lens[k] + SumTo(lens, k - 1)
ListOffsets(lens) == [k \in 1..(Len(lens) + 1) |-> SumTo(lens, k - 1)]

\* The record batch of GetObjects for a tree: column 0 the catalog names,
\* column 1 the list of schemas (offsets and the struct of the values), whose
\* field 0 is the schema names and field 1 the list of tables, with the
\* struct of table name and table type.
RecordBatch(tree) ==
    LET schemas == Flat([i \in 1..Len(tree) |-> tree[i].schemas])
        tables == Flat([j \in 1..Len(schemas) |-> schemas[j].tables])
    IN  [catalogNameCol |-> [i \in 1..Len(tree) |-> tree[i].name],
         schemasOffsets |-> ListOffsets([i \in 1..Len(tree) |-> Len(tree[i].schemas)]),
         schemaNameCol |-> [j \in 1..Len(schemas) |-> schemas[j].name],
         tablesOffsets |-> ListOffsets([j \in 1..Len(schemas) |-> Len(schemas[j].tables)]),
         tableNameCol |-> [k \in 1..Len(tables) |-> tables[k].name],
         tableTypeCol |-> [k \in 1..Len(tables) |-> tables[k].type]]

\* What is wrong with the offsets of a batch: nothing, a last range that
\* extends past the child array, or a range that decreases.
Damages == {"none", "schemas past", "schemas decreasing",
            "tables past", "tables decreasing"}

\* The offsets with the last one moved past the child array.
PastEnd(offsets) == [offsets EXCEPT ![Len(offsets)] = @ + 1]
\* The offsets with the last range made decreasing.
Decreasing(offsets) ==
    IF Len(offsets) < 2 THEN offsets
    ELSE [offsets EXCEPT ![Len(offsets) - 1] = offsets[Len(offsets)] + 1]

Damaged(rec, damage) ==
    CASE damage = "none" -> rec
      [] damage = "schemas past" -> [rec EXCEPT !.schemasOffsets = PastEnd(@)]
      [] damage = "schemas decreasing" -> [rec EXCEPT !.schemasOffsets = Decreasing(@)]
      [] damage = "tables past" -> [rec EXCEPT !.tablesOffsets = PastEnd(@)]
      [] damage = "tables decreasing" -> [rec EXCEPT !.tablesOffsets = Decreasing(@)]

\* What a read outside an array gives when it does not panic.
OutOfRange == "<out of range>"

\* col.Value(j), 0-based: no check of j against the length.
Value(col, j) == IF j \in 0..(Len(col) - 1) THEN col[j + 1] ELSE OutOfRange

\* Offsets()[j], 0-based, with no check of j: outside the offsets it reads
\* the zeroed slack of the buffer when it does not panic.
OffsetAt(offsets, j) == IF j \in 0..(Len(offsets) - 1) THEN offsets[j + 1] ELSE 0

\* DoGetDBSchemas lines 146-150: for j := start; j < end; j++, one row of
\* catalog name and schema name per j.
RECURSIVE SchemaRowsOfRange(_, _, _, _)

\* A variant of SchemaRowsOfRange that tests j < end after the body, so that
\* an empty range still reads one child.
SchemaRowsOfRange_TestAfter(rec, catalogName, j, end) ==
    <<[catalog |-> catalogName, schema |-> Value(rec.schemaNameCol, j)]>>
    \o (IF j + 1 < end THEN SchemaRowsOfRange(rec, catalogName, j + 1, end) ELSE <<>>)

SchemaRowsOfRange(rec, catalogName, j, end) ==
    IF ~(j < end) THEN <<>>
    ELSE <<[catalog |-> catalogName, schema |-> Value(rec.schemaNameCol, j)]>>
         \o SchemaRowsOfRange(rec, catalogName, j + 1, end)

\* A variant of FlattenDBSchemas with end := schemasCol.Offsets()[i].
FlattenDBSchemas_SameOffset(rec) ==
    Flat([i \in 1..Len(rec.catalogNameCol) |->
            SchemaRowsOfRange(rec, Value(rec.catalogNameCol, i - 1),
                              OffsetAt(rec.schemasOffsets, i - 1),
                              OffsetAt(rec.schemasOffsets, i - 1))])

\* DoGetDBSchemas lines 140-151: for i := 0; i < rec.NumRows(); i++, the
\* range Offsets()[i], Offsets()[i+1] of catalog i.
FlattenDBSchemas(rec) ==
    Flat([i \in 1..Len(rec.catalogNameCol) |->
            SchemaRowsOfRange(rec, Value(rec.catalogNameCol, i - 1),
                              OffsetAt(rec.schemasOffsets, i - 1),
                              OffsetAt(rec.schemasOffsets, i))])

\* DoGetTables lines 385-393: for k := tableStart; k < tableEnd; k++.
RECURSIVE TableRowsOfRange(_, _, _, _, _)
TableRowsOfRange(rec, catalogName, schemaName, k, end) ==
    IF ~(k < end) THEN <<>>
    ELSE <<[catalog |-> catalogName, schema |-> schemaName,
            table |-> Value(rec.tableNameCol, k),
            type |-> Value(rec.tableTypeCol, k)]>>
         \o TableRowsOfRange(rec, catalogName, schemaName, k + 1, end)

\* DoGetTables lines 379-394: for j := schemaStart; j < schemaEnd; j++, the
\* range tablesCol.Offsets()[j], tablesCol.Offsets()[j+1] of schema j.
RECURSIVE TableRowsOfSchemas(_, _, _, _)
TableRowsOfSchemas(rec, catalogName, j, end) ==
    IF ~(j < end) THEN <<>>
    ELSE TableRowsOfRange(rec, catalogName, Value(rec.schemaNameCol, j),
                          OffsetAt(rec.tablesOffsets, j),
                          OffsetAt(rec.tablesOffsets, j + 1))
         \o TableRowsOfSchemas(rec, catalogName, j + 1, end)

\* A variant of FlattenTables that gives every row the first catalog's name.
FlattenTables_FirstCatalog(rec) ==
    Flat([i \in 1..Len(rec.catalogNameCol) |->
            TableRowsOfSchemas(rec, Value(rec.catalogNameCol, 0),
                               OffsetAt(rec.schemasOffsets, i - 1),
                               OffsetAt(rec.schemasOffsets, i))])

\* DoGetTables lines 373-395: the loop over the catalogs.
FlattenTables(rec) ==
    Flat([i \in 1..Len(rec.catalogNameCol) |->
            TableRowsOfSchemas(rec, Value(rec.catalogNameCol, i - 1),
                               OffsetAt(rec.schemasOffsets, i - 1),
                               OffsetAt(rec.schemasOffsets, i))])

\* The flattening read an index outside a child array.
ReadOutOfRange(rec, depth) ==
    LET inSchemas == \E i \in 1..Len(rec.catalogNameCol) :
                        \E j \in rec.schemasOffsets[i]..(rec.schemasOffsets[i + 1] - 1) :
                            j \notin 0..(Len(rec.schemaNameCol) - 1)
        inTables == \E i \in 1..Len(rec.catalogNameCol) :
                        \E j \in rec.schemasOffsets[i]..(rec.schemasOffsets[i + 1] - 1) :
                            \/ j + 1 \notin 0..(Len(rec.tablesOffsets) - 1)
                            \/ \E k \in rec.tablesOffsets[j + 1]..(rec.tablesOffsets[j + 2] - 1) :
                                  k \notin 0..(Len(rec.tableNameCol) - 1)
    IN  IF depth = "tables" THEN inSchemas \/ inTables ELSE inSchemas

\* array.NewStringBuilder(pool), one per column of the flat record.
NewBuilders(n) == [c \in 1..n |-> <<>>]

\* A variant of AppendValues that leaves the last builder out.
AppendValues_LastSkipped(builders, values) ==
    [c \in DOMAIN builders |->
        IF c = Len(builders) THEN builders[c] ELSE Append(builders[c], values[c])]

\* The body of the innermost loop: one Append on every builder.
AppendValues(builders, values) ==
    [c \in DOMAIN builders |-> Append(builders[c], values[c])]

\* The builders after the first n passes of the innermost loop.
RECURSIVE BuildersAfter(_, _, _)
BuildersAfter(builders, values, n) ==
    IF n = 0 THEN builders
    ELSE LET before == BuildersAfter(builders, values, n - 1)
         IN  AppendValues(before, values[n])

\* The builders as they stand before the first pass and after each pass.
BuilderSteps(ncols, values) ==
    [n \in 1..(Len(values) + 1) |-> BuildersAfter(NewBuilders(ncols), values, n - 1)]

\* What one pass appends: DoGetDBSchemas lines 148-149, DoGetTables 389-392.
SchemaRowValues(row) == <<row.catalog, row.schema>>
\* A variant of TableRowValues with the table name ahead of the schema name.
TableRowValues_TableFirst(row) == <<row.catalog, row.table, row.schema, row.type>>

TableRowValues(row) == <<row.catalog, row.schema, row.table, row.type>>

\* builder.NewArray() of every builder.
NewArrays(builders) == builders

\* array.NewRecord(schema, cols, nrows): a negative nrows is replaced by the
\* length of the first column, any other nrows is taken as given; a column
\* shorter than nrows makes it panic.
NewRecord(cols, nrows) ==
    LET rows == IF nrows < 0 THEN (IF cols = <<>> THEN 0 ELSE Len(cols[1])) ELSE nrows
    IN  [cols |-> cols, nrows |-> rows,
         valid |-> \A c \in DOMAIN cols : Len(cols[c]) >= rows]

\* No batch flattened.
NoRecord == [depth |-> "none", damage |-> "none", rows |-> <<>>, err |-> "",
             panicked |-> FALSE, steps |-> <<>>, cols |-> <<>>, nrows |-> 0]

\* ----------------------------------------------------------------- state

VARIABLES
    db,        \* s.db: "nil" or "open"
    queries,   \* s.queries: handle -> query
    crashed,   \* the process died (fatal error or panic)
    drawn,     \* the handle bytes rand.Read has given out
    tickets,   \* history: handle -> text of the tickets returned to clients
    call,      \* per task: the handler it is in, its position and inputs
    resp,      \* what the step just taken returned to its client, if anything
    stream,    \* per task: the result channel, its producer and its consumer
    tree,      \* the object tree of the batch a metadata producer works on
    record     \* the flat record the producer built from it

vars == <<db, queries, crashed, drawn, tickets, call, resp, stream, tree, record>>

NoDesc == [cmd |-> ""]

NoResult == [err |-> "", schema |-> <<>>, ch |-> FALSE, ticket |-> <<>>,
             endpoints |-> <<>>, desc |-> NoDesc, sqls |-> <<>>, use |-> NoUse]

ErrResult(e) == [NoResult EXCEPT !.err = e]

IdleCall == [op |-> "none", pc |-> "idle", query |-> "", handle |-> "",
             raced |-> "none", known |-> FALSE]

NoResp == [req |-> "", op |-> "none", query |-> "", handle |-> "",
           known |-> FALSE, stored |-> FALSE, res |-> NoResult]

\* The handler of call c returns res to its client.
Response(r, c, res) ==
    [req |-> r, op |-> c.op, query |-> c.query, handle |-> c.handle,
     known |-> c.known, stored |-> FALSE, res |-> res]

NoStream == [op |-> "none", use |-> NoUse, cap |-> 0, pulled |-> <<>>, hand |-> 0,
             buf |-> <<>>, closes |-> 0, gpc |-> "none", rerr |-> FALSE,
             recvd |-> <<>>, cons |-> "none"]

\* ------------------------------------------------------------- map access

Writers == {r \in Reqs : call[r].pc = "mapassign"}
Readers == {r \in Reqs : call[r].pc = "mapaccess"}

\* The other accesses a new write overlaps: it races with every one of them.
RacedByWrite(c) ==
    IF c.pc \in {"mapassign", "mapaccess"} THEN [c EXCEPT !.raced = "write"] ELSE c

\* A new read races with the writes in progress.
RacedByRead(c) ==
    IF c.pc = "mapassign" /\ c.raced = "none" THEN [c EXCEPT !.raced = "read"] ELSE c

\* What an unsynchronized write of the map can do.  Alone it stores.  Racing
\* with a read the runtime may stop the process (fatal error: concurrent map
\* read and map write); racing with another write the entry may also be lost.
MapAssignOutcomes(raced) ==
    CASE raced = "none" -> {"stored"}
      [] raced = "read" -> {"stored", "fatal"}
      [] raced = "write" -> {"stored", "lost", "fatal"}

\* What an unsynchronized read can do.  Alone it reads the entry.  Racing
\* with a write it may also miss an entry that is there, or find the key and
\* read the zero value of the element, or stop the process.
MapAccessOutcomes(raced, present) ==
    IF raced = "none" THEN {"value"}
    ELSE IF present THEN {"value", "miss", "zero", "fatal"}
    ELSE {"value", "fatal"}

\* query, exists := s.queries[handle]
MapAccess(m, handle, outcome) ==
    IF handle \in DOMAIN m /\ outcome = "value"
    THEN [query |-> m[handle], exists |-> TRUE]
    ELSE IF handle \in DOMAIN m /\ outcome = "zero"
    THEN [query |-> "", exists |-> TRUE]
    ELSE [query |-> "", exists |-> FALSE]

\* A variant of MapAssign that keeps only the entry it stores.
MapAssign_Replacing(m, handle, query, outcome) ==
    IF outcome = "stored" THEN [h \in {handle} |-> query] ELSE m

\* s.queries[handle] = query
MapAssign(m, handle, query, outcome) ==
    IF outcome = "stored"
    THEN [h \in DOMAIN m \cup {handle} |-> IF h = handle THEN query ELSE m[h]]
    ELSE m

\* --------------------------------------------------------- handler bodies

\* A variant of GetSchemaStatementBody that drops the error of the probe.
GetSchemaStatementBody_ErrorDropped(q, dbv, fault) ==
    IF dbv = "nil" THEN ErrResult(ErrDatabase)
    ELSE LET e == ExecuteOnConn(SchemaQuery(q), fault)
         IN  [NoResult EXCEPT !.schema = e.schema, !.sqls = e.sqls,
                              !.use = DeferRelease(DeferClose(e.use))]

\* GetSchemaStatement: the probe on a connection of its own; conn, stmt and
\* reader are released by the defers.
GetSchemaStatementBody(q, dbv, fault) ==
    IF dbv = "nil" THEN ErrResult(ErrDatabase)
    ELSE LET e == ExecuteOnConn(SchemaQuery(q), fault)
         IN  [NoResult EXCEPT !.err = e.err, !.schema = e.schema, !.sqls = e.sqls,
                              !.use = DeferRelease(DeferClose(e.use))]

\* GetFlightInfoStatement from db.Open on: the handle is already stored.
GetFlightInfoStatementProbe(q, handle, fault) ==
    LET e == ExecuteOnConn(SchemaQuery(q), fault)
    IN  [NoResult EXCEPT !.err = e.err, !.schema = e.schema, !.sqls = e.sqls,
                         !.ticket = IF e.err = "" THEN CreateStatementQueryTicket(handle)
                                    ELSE <<>>,
                         !.endpoints =
                            IF e.err = ""
                            THEN <<[ticket |-> CreateStatementQueryTicket(handle)]>>
                            ELSE <<>>,
                         !.use = DeferRelease(DeferClose(e.use))]

\* A variant of DoGetStatementBody that tests s.db before the handle.
DoGetStatementBody_NilFirst(handle, lookup, dbv, fault) ==
    IF dbv = "nil" THEN ErrResult(ErrDatabase)
    ELSE IF ~lookup.exists THEN ErrResult(ErrUnknownHandle(handle))
    ELSE LET e == ExecuteOnConn(lookup.query, fault)
         IN  [NoResult EXCEPT !.err = e.err, !.schema = e.schema, !.ch = (e.err = ""),
                              !.sqls = e.sqls, !.use = DeferClose(e.use)]

\* DoGetStatement after the lookup: the handle check, then the nil check,
\* then the query as stored on a fresh connection.  conn and stmt are closed
\* by the defers at the return; the reader is left to the goroutine.
DoGetStatementBody(handle, lookup, dbv, fault) ==
    IF ~lookup.exists THEN ErrResult(ErrUnknownHandle(handle))
    ELSE IF dbv = "nil" THEN ErrResult(ErrDatabase)
    ELSE LET e == ExecuteOnConn(lookup.query, fault)
         IN  [NoResult EXCEPT !.err = e.err, !.schema = e.schema, !.ch = (e.err = ""),
                              !.sqls = e.sqls, !.use = DeferClose(e.use)]

\* ch := make(chan flight.StreamChunk) and go func(): the producer starts and
\* the consumer is given the channel by the return.
SpawnStream(op, res) ==
    IF res.ch
    THEN [NoStream EXCEPT !.op = op, !.use = res.use, !.cap = 0, !.gpc = "next",
                          !.cons = "recv"]
    ELSE NoStream

\* ------------------------------------------------------------------ Init

Init ==
    /\ db \in {"nil", "open"}
    /\ queries = <<>>
    /\ crashed = FALSE
    /\ drawn = {}
    /\ tickets = <<>>
    /\ call = [r \in Reqs |-> IdleCall]
    /\ resp = NoResp
    /\ stream = [r \in Reqs |-> NoStream]
    /\ tree = <<>>
    /\ record = NoRecord

\* The handles a client presents: those of the tickets it was given, and one
\* it made up.
Presented == DOMAIN tickets \cup {UnknownHandle}

\* Task r is free to take a request.
Idle(r) == ~crashed /\ call[r].pc = "idle" /\ stream[r] = NoStream

\* ------------------------------------------------- GetFlightInfoStatement

\* A variant of GetFlightInfoStatement_Begin that draws the handle before it
\* tests s.db.
GetFlightInfoStatement_Begin_DrawFirst(r, q) ==
    /\ Idle(r)
    /\ LET c == [IdleCall EXCEPT !.op = "GetFlightInfoStatement", !.query = q]
       IN  \/ /\ db = "nil"
              /\ \E bs \in RandBytes \ drawn :
                    /\ drawn' = drawn \cup {bs}
                    /\ resp' = Response(r, [c EXCEPT !.handle = EncodeToString(bs)],
                                        ErrResult(ErrDatabase))
              /\ UNCHANGED call
           \/ /\ db # "nil"
              /\ resp' = Response(r, c, ErrResult("rand: Read"))
              /\ UNCHANGED <<drawn, call>>
           \/ /\ db # "nil"
              /\ \E bs \in RandBytes \ drawn :
                    /\ drawn' = drawn \cup {bs}
                    /\ call' = [x \in Reqs |->
                          IF x = r
                          THEN [c EXCEPT !.pc = "mapassign",
                                         !.handle = EncodeToString(bs),
                                         !.raced = IF Writers # {} THEN "write"
                                                   ELSE IF Readers # {} THEN "read"
                                                   ELSE "none"]
                          ELSE RacedByWrite(call[x])]
              /\ resp' = NoResp
    /\ UNCHANGED <<db, queries, crashed, tickets, stream, tree, record>>

\* Lines 169-185 up to the start of the map write: the nil check, rand.Read,
\* hex.EncodeToString.  rand.Read gives bytes it has not given before.
GetFlightInfoStatement_Begin(r, q) ==
    /\ Idle(r)
    /\ LET c == [IdleCall EXCEPT !.op = "GetFlightInfoStatement", !.query = q]
       IN  \/ /\ db = "nil"
              /\ resp' = Response(r, c, ErrResult(ErrDatabase))
              /\ UNCHANGED <<drawn, call>>
           \/ /\ db # "nil"
              /\ resp' = Response(r, c, ErrResult("rand: Read"))
              /\ UNCHANGED <<drawn, call>>
           \/ /\ db # "nil"
              /\ \E bs \in RandBytes \ drawn :
                    /\ drawn' = drawn \cup {bs}
                    /\ call' = [x \in Reqs |->
                          IF x = r
                          THEN [c EXCEPT !.pc = "mapassign",
                                         !.handle = EncodeToString(bs),
                                         !.raced = IF Writers # {} THEN "write"
                                                   ELSE IF Readers # {} THEN "read"
                                                   ELSE "none"]
                          ELSE RacedByWrite(call[x])]
              /\ resp' = NoResp
    /\ UNCHANGED <<db, queries, crashed, tickets, stream, tree, record>>

\* Lines 185-227: the map write ends, then the probe and the return.
GetFlightInfoStatement_Finish(r, outcome, fault) ==
    /\ ~crashed
    /\ call[r].pc = "mapassign"
    /\ outcome \in MapAssignOutcomes(call[r].raced)
    /\ IF outcome = "fatal"
       THEN /\ crashed' = TRUE
            /\ resp' = NoResp
            /\ UNCHANGED <<queries, tickets, call>>
       ELSE LET c == call[r]
                res == GetFlightInfoStatementProbe(c.query, c.handle, fault)
            IN  /\ queries' = MapAssign(queries, c.handle, c.query, outcome)
                /\ call' = [call EXCEPT ![r] = IdleCall]
                /\ resp' = [Response(r, c, res) EXCEPT !.stored = (outcome = "stored")]
                /\ tickets' = IF res.err = ""
                              THEN MapAssign(tickets, GetStatementHandle(res.ticket),
                                             c.query, "stored")
                              ELSE tickets
                /\ UNCHANGED crashed
    /\ UNCHANGED <<db, drawn, stream, tree, record>>

\* ----------------------------------------------------- GetSchemaStatement

\* A variant of GetSchemaStatement that stores the text it describes.
GetSchemaStatement_Storing(r, q, fault) ==
    /\ Idle(r)
    /\ resp' = Response(r, [IdleCall EXCEPT !.op = "GetSchemaStatement", !.query = q],
                        GetSchemaStatementBody(q, db, fault))
    /\ queries' = MapAssign(queries, UnknownHandle, q, "stored")
    /\ UNCHANGED <<db, crashed, drawn, tickets, call, stream, tree, record>>

\* GetSchemaStatement (lines 230-267): one step, no handle, no registry.
GetSchemaStatement(r, q, fault) ==
    /\ Idle(r)
    /\ resp' = Response(r, [IdleCall EXCEPT !.op = "GetSchemaStatement", !.query = q],
                        GetSchemaStatementBody(q, db, fault))
    /\ UNCHANGED <<db, queries, crashed, drawn, tickets, call, stream, tree, record>>

\* --------------------------------------------------------- DoGetStatement

\* Lines 272-274: the map read starts.
DoGetStatement_Begin(r, ticket) ==
    /\ Idle(r)
    /\ GetStatementHandle(ticket) \in Presented
    /\ LET handle == GetStatementHandle(ticket)
       IN  call' = [x \in Reqs |->
              IF x = r
              THEN [IdleCall EXCEPT !.op = "DoGetStatement", !.pc = "mapaccess",
                                    !.handle = handle,
                                    !.known = (handle \in DOMAIN tickets),
                                    !.raced = IF Writers # {} THEN "write" ELSE "none"]
              ELSE RacedByRead(call[x])]
    /\ resp' = NoResp
    /\ UNCHANGED <<db, queries, crashed, drawn, tickets, stream, tree, record>>

\* Lines 274-322: the map read ends, then the rest of the handler.
DoGetStatement_Finish(r, outcome, fault) ==
    /\ ~crashed
    /\ call[r].pc = "mapaccess"
    /\ outcome \in MapAccessOutcomes(call[r].raced, call[r].handle \in DOMAIN queries)
    /\ IF outcome = "fatal"
       THEN /\ crashed' = TRUE
            /\ resp' = NoResp
            /\ UNCHANGED <<call, stream>>
       ELSE LET lookup == MapAccess(queries, call[r].handle, outcome)
                c == [call[r] EXCEPT !.query = lookup.query]
                res == DoGetStatementBody(c.handle, lookup, db, fault)
            IN  /\ call' = [call EXCEPT ![r] = IdleCall]
                /\ resp' = Response(r, c, res)
                /\ stream' = [stream EXCEPT ![r] = SpawnStream(c.op, res)]
                /\ UNCHANGED crashed
    /\ UNCHANGED <<db, queries, drawn, tickets, tree, record>>

\* ------------------------------------------------------ metadata requests

\* The descriptors a client may send: desc.Cmd is all the handlers read.
Descs == {[cmd |-> "cmd-1"], [cmd |-> "cmd-2"]}

\* schema_ref.Catalogs, schema_ref.DBSchemas, schema_ref.Tables
SchemaCatalogs == <<"catalog_name">>
SchemaDBSchemas == <<"catalog_name", "db_schema_name">>
SchemaTables == <<"catalog_name", "db_schema_name", "table_name", "table_type">>

\* A variant of MetadataFlightInfo with an endpoint whose ticket is empty.
MetadataFlightInfo_EmptyTicket(desc, schema) ==
    [NoResult EXCEPT !.ticket = desc.cmd, !.endpoints = <<[ticket |-> ""]>>,
                     !.desc = desc, !.schema = schema]

\* The FlightInfo of the three metadata describes: the descriptor's command as
\* the ticket, the descriptor itself, the schema of the depth.
MetadataFlightInfo(desc, schema) ==
    [NoResult EXCEPT !.ticket = desc.cmd, !.endpoints = <<[ticket |-> desc.cmd]>>,
                     !.desc = desc, !.schema = schema]

GetFlightInfoCatalogs(r, desc) ==
    /\ Idle(r)
    /\ resp' = Response(r, [IdleCall EXCEPT !.op = "GetFlightInfoCatalogs"],
                        MetadataFlightInfo(desc, SchemaCatalogs))
    /\ UNCHANGED <<db, queries, crashed, drawn, tickets, call, stream, tree, record>>

GetFlightInfoSchemas(r, desc) ==
    /\ Idle(r)
    /\ resp' = Response(r, [IdleCall EXCEPT !.op = "GetFlightInfoSchemas"],
                        MetadataFlightInfo(desc, SchemaDBSchemas))
    /\ UNCHANGED <<db, queries, crashed, drawn, tickets, call, stream, tree, record>>

GetFlightInfoTables(r, desc) ==
    /\ Idle(r)
    /\ resp' = Response(r, [IdleCall EXCEPT !.op = "GetFlightInfoTables"],
                        MetadataFlightInfo(desc, SchemaTables))
    /\ UNCHANGED <<db, queries, crashed, drawn, tickets, call, stream, tree, record>>

\* A variant of GetObjectsOnConn that hands out a channel with its error.
GetObjectsOnConn_ChannelOnError(schema, fault) ==
    IF fault = "Open" THEN ErrResult("backend: Open")
    ELSE IF fault = "GetObjects"
    THEN [ErrResult("backend: GetObjects") EXCEPT
             !.schema = schema, !.ch = TRUE,
             !.use = DeferClose([NoUse EXCEPT !.connOpen = 1, !.rdrOpen = 1])]
    ELSE [NoResult EXCEPT !.schema = schema, !.ch = TRUE,
             !.use = DeferClose([NoUse EXCEPT !.connOpen = 1, !.rdrOpen = 1])]

\* db.Open and conn.GetObjects; defer conn.Close() runs at the return.
GetObjectsOnConn(schema, fault) ==
    IF fault = "Open" THEN ErrResult("backend: Open")
    ELSE IF fault = "GetObjects"
    THEN [ErrResult("backend: GetObjects") EXCEPT
             !.use = DeferClose([NoUse EXCEPT !.connOpen = 1])]
    ELSE [NoResult EXCEPT !.schema = schema, !.ch = TRUE,
             !.use = DeferClose([NoUse EXCEPT !.connOpen = 1, !.rdrOpen = 1])]

\* DoGetDBSchemas (lines 107-167) up to the return: db := *s.db without a nil
\* check, so a nil s.db panics.
DoGetDBSchemas(r, fault) ==
    /\ Idle(r)
    /\ LET c == [IdleCall EXCEPT !.op = "DoGetDBSchemas"]
           res == GetObjectsOnConn(SchemaDBSchemas, fault)
       IN  IF db = "nil"
           THEN /\ crashed' = TRUE
                /\ call' = [call EXCEPT ![r] = [c EXCEPT !.pc = "panicked"]]
                /\ resp' = NoResp
                /\ UNCHANGED stream
           ELSE /\ resp' = Response(r, c, res)
                /\ stream' = [stream EXCEPT ![r] = SpawnStream(c.op, res)]
                /\ UNCHANGED <<crashed, call>>
    /\ UNCHANGED <<db, queries, drawn, tickets, tree, record>>

\* DoGetTables (lines 334-415) up to the return, with the same dereference.
DoGetTables(r, fault) ==
    /\ Idle(r)
    /\ LET c == [IdleCall EXCEPT !.op = "DoGetTables"]
           res == GetObjectsOnConn(SchemaTables, fault)
       IN  IF db = "nil"
           THEN /\ crashed' = TRUE
                /\ call' = [call EXCEPT ![r] = [c EXCEPT !.pc = "panicked"]]
                /\ resp' = NoResp
                /\ UNCHANGED stream
           ELSE /\ resp' = Response(r, c, res)
                /\ stream' = [stream EXCEPT ![r] = SpawnStream(c.op, res)]
                /\ UNCHANGED <<crashed, call>>
    /\ UNCHANGED <<db, queries, drawn, tickets, tree, record>>

\* DoGetCatalogs lines 64-84: the nil check, Open, GetObjects, and
\* ch := make(chan flight.StreamChunk, 1).  The loop runs in the handler.
DoGetCatalogs_Begin(r, fault) ==
    /\ Idle(r)
    /\ LET c == [IdleCall EXCEPT !.op = "DoGetCatalogs"]
           res == GetObjectsOnConn(SchemaCatalogs, fault)
       IN  IF db = "nil"
           THEN /\ resp' = Response(r, c, ErrResult(ErrDatabase))
                /\ UNCHANGED <<call, stream>>
           ELSE IF res.err # ""
           THEN /\ resp' = Response(r, c, res)
                /\ UNCHANGED <<call, stream>>
           ELSE /\ call' = [call EXCEPT ![r] = [c EXCEPT !.pc = "loop"]]
                /\ stream' = [stream EXCEPT ![r] =
                    [NoStream EXCEPT !.op = c.op, !.cap = 1, !.gpc = "next",
                        !.use = [NoUse EXCEPT !.connOpen = 1, !.rdrOpen = 1]]]
                /\ resp' = NoResp
    /\ UNCHANGED <<db, queries, crashed, drawn, tickets, tree, record>>

\* ---------------------------------------------------------------- channel

\* A send can complete: a free buffer slot, or (unbuffered) a receiver.
ChanCanSend(s) == IF s.cap = 0 THEN s.cons = "recv" ELSE Len(s.buf) < s.cap

\* A variant of ChanSend that loses the chunk.
ChanSend_Dropping(s, x) == [s EXCEPT !.hand = 0]

\* ch <- chunk: into the buffer, or straight to the receiver.
ChanSend(s, x) ==
    IF s.cap = 0 THEN [s EXCEPT !.recvd = Append(@, x), !.hand = 0]
    ELSE [s EXCEPT !.buf = Append(@, x), !.hand = 0]

\* The reader holds at most MaxBatches batches; whether another one follows
\* is the backend's choice at each reader.Next().
ReaderHasNext(s) == Len(s.pulled) < MaxBatches

\* reader.Next() returned true: the producer holds the reader's next batch.
ReaderPull(s) ==
    [s EXCEPT !.pulled = Append(@, Len(@) + 1), !.hand = Len(s.pulled) + 1,
              !.gpc = "send"]

\* reader.Next() returned false, at the end of the result or (failed) on an
\* error of the reader, which nothing looks at; close(ch) as the producer leaves.
ProducerClose(s, failed) ==
    [s EXCEPT !.closes = @ + 1, !.gpc = "done", !.rerr = failed]

\* A variant of ReaderRelease that releases nothing.
ReaderRelease_Skipped(use) == use

\* reader.Release()
ReaderRelease(use) == [use EXCEPT !.rdrRelease = @ + 1]

\* defer close(ch); defer reader.Release(): what the goroutine runs on its
\* way out.
GoroutineExit(s, failed) ==
    [ProducerClose(s, failed) EXCEPT !.use = ReaderRelease(@)]

\* close(ch); return schema, ch, nil of DoGetCatalogs, with its deferred
\* conn.Close(): the reader is not released.
DoGetCatalogsExit(s, failed) ==
    [ProducerClose(s, failed) EXCEPT !.use = DeferClose(@), !.cons = "recv"]

\* reader.Next() in the loop of DoGetCatalogs.
DoGetCatalogs_Next(r) ==
    /\ ~crashed
    /\ call[r].pc = "loop"
    /\ stream[r].gpc = "next"
    /\ \/ /\ ReaderHasNext(stream[r])
          /\ stream' = [stream EXCEPT ![r] = ReaderPull(@)]
          /\ resp' = NoResp
          /\ UNCHANGED call
       \/ \E failed \in BOOLEAN :
             /\ stream' = [stream EXCEPT ![r] = DoGetCatalogsExit(@, failed)]
             /\ resp' = Response(r, call[r],
                          [NoResult EXCEPT !.schema = SchemaCatalogs, !.ch = TRUE,
                                           !.use = stream'[r].use])
             /\ call' = [call EXCEPT ![r] = IdleCall]
    /\ UNCHANGED <<db, queries, crashed, drawn, tickets, tree, record>>

\* ch <- flight.StreamChunk{Data: record} in the loop of DoGetCatalogs.
DoGetCatalogs_Send(r) ==
    /\ ~crashed
    /\ call[r].pc = "loop"
    /\ stream[r].gpc = "send"
    /\ ChanCanSend(stream[r])
    /\ stream' = [stream EXCEPT ![r] = [ChanSend(@, @.hand) EXCEPT !.gpc = "next"]]
    /\ resp' = NoResp
    /\ UNCHANGED <<db, queries, crashed, drawn, tickets, call, tree, record>>

\* The goroutine of DoGetDBSchemas, DoGetTables or DoGetStatement runs.
InGoroutine(r) ==
    /\ ~crashed
    /\ call[r].pc = "idle"
    /\ stream[r].op \in {"DoGetDBSchemas", "DoGetTables", "DoGetStatement"}

\* reader.Next() in the goroutine; when it returns false the defers run.
Goroutine_Next(r) ==
    /\ InGoroutine(r)
    /\ stream[r].gpc = "next"
    /\ \/ /\ ReaderHasNext(stream[r])
          /\ stream' = [stream EXCEPT ![r] = ReaderPull(@)]
       \/ \E failed \in BOOLEAN :
             stream' = [stream EXCEPT ![r] = GoroutineExit(@, failed)]
    /\ resp' = NoResp
    /\ UNCHANGED <<db, queries, crashed, drawn, tickets, call, tree, record>>

\* A variant of Goroutine_Send whose chunk arrives on the channels of all the
\* streams in progress.
Goroutine_Send_Shared(r) ==
    /\ InGoroutine(r)
    /\ stream[r].gpc = "send"
    /\ ChanCanSend(stream[r])
    /\ stream' = [x \in Reqs |->
                    IF x = r THEN [ChanSend(stream[r], stream[r].hand) EXCEPT !.gpc = "next"]
                    ELSE IF stream[x].op # "none" /\ stream[x].cons = "recv"
                    THEN [stream[x] EXCEPT !.recvd = Append(@, stream[r].hand)]
                    ELSE stream[x]]
    /\ resp' = NoResp
    /\ UNCHANGED <<db, queries, crashed, drawn, tickets, call, tree, record>>

\* ch <- flight.StreamChunk{Data: rec} in the goroutine: no select, no ctx.
Goroutine_Send(r) ==
    /\ InGoroutine(r)
    /\ stream[r].gpc = "send"
    /\ ChanCanSend(stream[r])
    /\ stream' = [stream EXCEPT ![r] = [ChanSend(@, @.hand) EXCEPT !.gpc = "next"]]
    /\ resp' = NoResp
    /\ UNCHANGED <<db, queries, crashed, drawn, tickets, call, tree, record>>

\* --------------------------------------------------------------- consumer

\* The consumer takes a chunk out of the channel's buffer.
Consumer_Recv(r) ==
    /\ ~crashed
    /\ stream[r].cons = "recv"
    /\ stream[r].buf # <<>>
    /\ stream' = [stream EXCEPT ![r] =
                    [@ EXCEPT !.recvd = Append(@, Head(stream[r].buf)),
                              !.buf = Tail(@)]]
    /\ resp' = NoResp
    /\ UNCHANGED <<db, queries, crashed, drawn, tickets, call, tree, record>>

\* The consumer finds the channel closed and empty: its range loop ends.
Consumer_Closed(r) ==
    /\ ~crashed
    /\ stream[r].cons = "recv"
    /\ stream[r].buf = <<>>
    /\ stream[r].closes > 0
    /\ stream' = [stream EXCEPT ![r].cons = "closed"]
    /\ resp' = NoResp
    /\ UNCHANGED <<db, queries, crashed, drawn, tickets, call, tree, record>>

\* The consumer stops receiving (the client went away, its context is
\* cancelled): nothing in the producers reads the context.
Consumer_Stop(r) ==
    /\ ~crashed
    /\ stream[r].cons = "recv"
    /\ stream' = [stream EXCEPT ![r].cons = "stopped"]
    /\ resp' = NoResp
    /\ UNCHANGED <<db, queries, crashed, drawn, tickets, call, tree, record>>

\* ------------------------------------------------------------------ Spec

\* The stream a handler returned is its consumer's business: the task goes
\* on to its next request (StreamSpec follows the stream instead).
Detach(r) ==
    /\ ~crashed
    /\ call[r].pc = "idle"
    /\ stream[r] # NoStream
    /\ stream' = [stream EXCEPT ![r] = NoStream]
    /\ resp' = NoResp
    /\ UNCHANGED <<db, queries, crashed, drawn, tickets, call, tree, record>>

Next ==
    \E r \in Reqs :
        \/ \E q \in Texts : GetFlightInfoStatement_Begin(r, q)
        \/ \E o \in {"stored", "lost", "fatal"}, f \in StatementFaults :
              GetFlightInfoStatement_Finish(r, o, f)
        \/ \E q \in Texts, f \in StatementFaults : GetSchemaStatement(r, q, f)
        \/ \E h \in Handles : DoGetStatement_Begin(r, CreateStatementQueryTicket(h))
        \/ \E o \in {"value", "miss", "zero", "fatal"}, f \in StatementFaults :
              DoGetStatement_Finish(r, o, f)
        \/ \E d \in Descs : GetFlightInfoCatalogs(r, d)
        \/ \E d \in Descs : GetFlightInfoSchemas(r, d)
        \/ \E d \in Descs : GetFlightInfoTables(r, d)
        \/ \E f \in ObjectsFaults : DoGetCatalogs_Begin(r, f)
        \/ DoGetCatalogs_Next(r)
        \/ DoGetCatalogs_Send(r)
        \/ \E f \in ObjectsFaults : DoGetDBSchemas(r, f)
        \/ \E f \in ObjectsFaults : DoGetTables(r, f)
        \/ Detach(r)

Spec == Init /\ [][Next]_vars

\* ------------------------------------------------------------ StreamSpec

\* Streams followed at the same time.
MaxStreams == 1

StreamReqs == {r \in Reqs : \E i \in 1..MaxStreams : r = "task-" \o ToString(i)}

\* A handle that an earlier describe of QueryOK returned.
DescribedBytes == [i \in 1..HandleLen |-> 16 + 10]

\* A server on which one describe has succeeded (or, with a nil db, one built
\* with an entry as in TestDoGetStatement_ErrorHandling/NilDatabase).
StreamInit ==
    /\ db \in {"nil", "open"}
    /\ queries = MapAssign(<<>>, EncodeToString(DescribedBytes), QueryOK, "stored")
    /\ crashed = FALSE
    /\ drawn = {DescribedBytes}
    /\ tickets = queries
    /\ call = [r \in Reqs |-> IdleCall]
    /\ resp = NoResp
    /\ stream = [r \in Reqs |-> NoStream]
    /\ tree = <<>>
    /\ record = NoRecord

StreamNext ==
    \E r \in StreamReqs :
        \/ \E h \in Handles : DoGetStatement_Begin(r, CreateStatementQueryTicket(h))
        \/ \E o \in {"value", "miss", "zero", "fatal"}, f \in StatementFaults :
              DoGetStatement_Finish(r, o, f)
        \/ \E f \in ObjectsFaults : DoGetCatalogs_Begin(r, f)
        \/ DoGetCatalogs_Next(r)
        \/ DoGetCatalogs_Send(r)
        \/ \E f \in ObjectsFaults : DoGetDBSchemas(r, f)
        \/ \E f \in ObjectsFaults : DoGetTables(r, f)
        \/ Goroutine_Next(r)
        \/ Goroutine_Send(r)
        \/ Consumer_Recv(r)
        \/ Consumer_Closed(r)
        \/ Consumer_Stop(r)

StreamSpec == StreamInit /\ [][StreamNext]_vars

\* ----------------------------------------------------------- RequestSpec

\* The requests of StreamSpec, and the describing requests before them: every
\* way a request that opens a connection can end.
RequestNext ==
    \/ StreamNext
    \/ \E r \in StreamReqs :
          \/ \E q \in Texts : GetFlightInfoStatement_Begin(r, q)
          \/ \E o \in {"stored", "lost", "fatal"}, f \in StatementFaults :
                GetFlightInfoStatement_Finish(r, o, f)
          \/ \E q \in Texts, f \in StatementFaults : GetSchemaStatement(r, q, f)

RequestSpec == StreamInit /\ [][RequestNext]_vars

\* -------------------------------------------------------- ConcurrentSpec

\* DoGetStatement requests of all the tasks at the same time, each with its
\* goroutine and its consumer.
ConcurrentNext ==
    \E r \in Reqs :
        \/ \E h \in Handles : DoGetStatement_Begin(r, CreateStatementQueryTicket(h))
        \/ \E o \in {"value", "miss", "zero", "fatal"}, f \in StatementFaults :
              DoGetStatement_Finish(r, o, f)
        \/ Goroutine_Next(r)
        \/ Goroutine_Send(r)
        \/ Consumer_Closed(r)
        \/ Consumer_Stop(r)

ConcurrentSpec == StreamInit /\ [][ConcurrentNext]_vars

\* ------------------------------------------------------------- BatchSpec

\* The batches the introspection reader may yield: a catalog without schemas,
\* a catalog whose schema has no tables, a catalog with a schema of two tables
\* and a schema of none.
BatchShapes == {<< <<>> >>, << <<0>> >>, << <<2, 0>> >>}

MetadataGoroutineOps == {"DoGetDBSchemas", "DoGetTables"}

\* One pass of for reader.Next() in the goroutine of DoGetDBSchemas or
\* DoGetTables, up to the record: the reader yields a batch, new builders are
\* made, filled by the loops and turned into the record; or the reader has
\* ended and the defers run.
Metadata_Next(r, shape) ==
    /\ InGoroutine(r)
    /\ stream[r].op \in MetadataGoroutineOps
    /\ stream[r].gpc = "next"
    /\ \/ /\ ReaderHasNext(stream[r])
          /\ tree' = TreeOf(shape)
          /\ \E rows \in {IF stream[r].op = "DoGetDBSchemas"
                           THEN FlattenDBSchemas(RecordBatch(tree'))
                           ELSE FlattenTables(RecordBatch(tree'))} :
             \E steps \in {IF stream[r].op = "DoGetDBSchemas"
                            THEN BuilderSteps(2, [n \in DOMAIN rows |->
                                                     SchemaRowValues(rows[n])])
                            ELSE BuilderSteps(4, [n \in DOMAIN rows |->
                                                     TableRowValues(rows[n])])} :
             \E cols \in {NewArrays(steps[Len(steps)])} :
             \E batch \in {NewRecord(cols, Len(cols[1]))} :
                record' = [depth |-> IF stream[r].op = "DoGetDBSchemas"
                                     THEN "dbschemas" ELSE "tables",
                           damage |-> "none", rows |-> rows, err |-> "",
                           panicked |-> ~batch.valid, steps |-> steps,
                           cols |-> batch.cols, nrows |-> batch.nrows]
          /\ stream' = [stream EXCEPT ![r] =
                          [ReaderPull(@) EXCEPT !.pulled = Append(stream[r].pulled, tree')]]
       \/ /\ \E failed \in BOOLEAN :
                stream' = [stream EXCEPT ![r] = GoroutineExit(@, failed)]
          /\ UNCHANGED <<tree, record>>
    /\ resp' = NoResp
    /\ UNCHANGED <<db, queries, crashed, drawn, tickets, call>>

\* A variant of Metadata_Send that sends no record of zero rows.
Metadata_Send_SkipEmpty(r) ==
    /\ InGoroutine(r)
    /\ stream[r].op \in MetadataGoroutineOps
    /\ stream[r].gpc = "send"
    /\ IF record.nrows = 0
       THEN stream' = [stream EXCEPT ![r] = [@ EXCEPT !.hand = 0, !.gpc = "next"]]
       ELSE /\ ChanCanSend(stream[r])
            /\ stream' = [stream EXCEPT ![r] =
                  [ChanSend(@, [batch |-> @.hand, cols |-> record.cols,
                                nrows |-> record.nrows]) EXCEPT !.gpc = "next"]]
    /\ resp' = NoResp
    /\ UNCHANGED <<db, queries, crashed, drawn, tickets, call, tree, record>>

\* ch <- flight.StreamChunk{Data: record} at the end of the pass: the record
\* just built goes to the consumer, whatever its number of rows.
Metadata_Send(r) ==
    /\ InGoroutine(r)
    /\ stream[r].op \in MetadataGoroutineOps
    /\ stream[r].gpc = "send"
    /\ ChanCanSend(stream[r])
    /\ stream' = [stream EXCEPT ![r] =
          [ChanSend(@, [batch |-> @.hand, cols |-> record.cols,
                        nrows |-> record.nrows]) EXCEPT !.gpc = "next"]]
    /\ resp' = NoResp
    /\ UNCHANGED <<db, queries, crashed, drawn, tickets, call, tree, record>>

\* One DoGetDBSchemas or DoGetTables request followed through its batches.
\* The channel is unbuffered: a send hands the record to the receiving
\* consumer.
BatchNext ==
    \E r \in {"task-1"} :
        \/ \E f \in ObjectsFaults : DoGetDBSchemas(r, f)
        \/ \E f \in ObjectsFaults : DoGetTables(r, f)
        \/ \E shape \in BatchShapes : Metadata_Next(r, shape)
        \/ Metadata_Send(r)
        \/ Consumer_Closed(r)
        \/ Consumer_Stop(r)

BatchSpec == StreamInit /\ [][BatchNext]_vars

\* ----------------------------------------------------------- FlattenSpec

\* A producer holds one batch of GetObjects: any tree within the bounds.
FlattenInit ==
    /\ db = "open"
    /\ queries = <<>>
    /\ crashed = FALSE
    /\ drawn = {}
    /\ tickets = <<>>
    /\ call = [r \in Reqs |-> IdleCall]
    /\ resp = NoResp
    /\ stream = [r \in Reqs |-> NoStream]
    /\ tree \in {TreeOf(shape) : shape \in TreeShapes}
    /\ record = NoRecord

\* The body of the loop of DoGetDBSchemas' goroutine on the batch, whose
\* offsets the backend may have damaged.  A read outside an array panics
\* (index out of range) or yields what lies there.  Every pass of the inner
\* loop appends to the two builders; the record is made of their arrays with
\* int64(cols[0].Len()) rows.
DoGetDBSchemas_Flatten(damage, panics) ==
    /\ record = NoRecord
    /\ LET rec == Damaged(RecordBatch(tree), damage)
           outside == panics /\ ReadOutOfRange(rec, "dbschemas")
       IN  \E rows \in {IF outside THEN <<>> ELSE FlattenDBSchemas(rec)} :
           \E steps \in {BuilderSteps(2, [n \in DOMAIN rows |-> SchemaRowValues(rows[n])])} :
           \E cols \in {NewArrays(steps[Len(steps)])} :
           \E batch \in {NewRecord(cols, Len(cols[1]))} :
              /\ record' = [depth |-> "dbschemas", damage |-> damage, rows |-> rows,
                            err |-> "", panicked |-> outside \/ ~batch.valid,
                            steps |-> steps,
                            cols |-> batch.cols, nrows |-> batch.nrows]
              /\ crashed' = (outside \/ ~batch.valid)
    /\ UNCHANGED <<db, queries, drawn, tickets, call, resp, stream, tree>>

\* The body of the loop of DoGetTables' goroutine on the batch, with its four
\* builders.
DoGetTables_Flatten(damage, panics) ==
    /\ record = NoRecord
    /\ LET rec == Damaged(RecordBatch(tree), damage)
           outside == panics /\ ReadOutOfRange(rec, "tables")
       IN  \E rows \in {IF outside THEN <<>> ELSE FlattenTables(rec)} :
           \E steps \in {BuilderSteps(4, [n \in DOMAIN rows |-> TableRowValues(rows[n])])} :
           \E cols \in {NewArrays(steps[Len(steps)])} :
           \E batch \in {NewRecord(cols, Len(cols[1]))} :
              /\ record' = [depth |-> "tables", damage |-> damage, rows |-> rows,
                            err |-> "", panicked |-> outside \/ ~batch.valid,
                            steps |-> steps,
                            cols |-> batch.cols, nrows |-> batch.nrows]
              /\ crashed' = (outside \/ ~batch.valid)
    /\ UNCHANGED <<db, queries, drawn, tickets, call, resp, stream, tree>>

\* The body of the loop of DoGetCatalogs on the batch: the record is made of
\* column 0 of the batch as it is, with 0 given as its number of rows.
DoGetCatalogs_Record ==
    /\ record = NoRecord
    /\ LET rec == RecordBatch(tree)
           batch == NewRecord(<<rec.catalogNameCol>>, 0)
       IN  /\ record' = [depth |-> "catalogs", damage |-> "none",
                         rows |-> [i \in DOMAIN rec.catalogNameCol |->
                                      [catalog |-> rec.catalogNameCol[i]]],
                         err |-> "", panicked |-> ~batch.valid, steps |-> <<>>,
                         cols |-> batch.cols, nrows |-> batch.nrows]
           /\ crashed' = ~batch.valid
    /\ UNCHANGED <<db, queries, drawn, tickets, call, resp, stream, tree>>

FlattenNext ==
    \/ \E damage \in Damages, panics \in BOOLEAN :
          \/ DoGetDBSchemas_Flatten(damage, panics)
          \/ DoGetTables_Flatten(damage, panics)
    \/ DoGetCatalogs_Record

FlattenSpec == FlattenInit /\ [][FlattenNext]_vars

\* ------------------------------------------------------------ FilterSpec

\* A nil *string; a nil []string is the empty sequence.
Nil == "<nil>"

\* The commands of the clients: flightsql.GetDBSchemas with its catalog and
\* schema pattern, flightsql.GetTables with table pattern and table types too.
GetDBSchemasCmds ==
    [catalog : {Nil, "c1"}, dbSchemaFilterPattern : {Nil, "c1.s1"}]
GetTablesCmds ==
    [catalog : {Nil, "c1"}, dbSchemaFilterPattern : {Nil, "c1.s1"},
     tableNameFilterPattern : {Nil, "c1.s1.t1"}, tableTypes : {<<>>, <<"VIEW">>}]
NoCmd == [catalog |-> Nil]

\* A variant of GetObjectsArgs in which DoGetTables passes nil for the table
\* name pattern.
GetObjectsArgs_TablePatternDropped(op, cmd) ==
    CASE op = "DoGetCatalogs" ->
            [depth |-> "catalogs", catalog |-> Nil, dbSchema |-> Nil,
             tableName |-> Nil, columnName |-> Nil, tableType |-> <<>>]
      [] op = "DoGetDBSchemas" ->
            [depth |-> "dbschemas", catalog |-> cmd.catalog,
             dbSchema |-> cmd.dbSchemaFilterPattern,
             tableName |-> Nil, columnName |-> Nil, tableType |-> <<>>]
      [] op = "DoGetTables" ->
            [depth |-> "tables", catalog |-> cmd.catalog,
             dbSchema |-> cmd.dbSchemaFilterPattern,
             tableName |-> Nil,
             columnName |-> Nil, tableType |-> cmd.tableTypes]

\* The arguments of conn.GetObjects(ctx, depth, catalog, dbSchema, tableName,
\* columnName, tableType) in the three handlers (lines 78, 117, 345).
GetObjectsArgs(op, cmd) ==
    CASE op = "DoGetCatalogs" ->
            [depth |-> "catalogs", catalog |-> Nil, dbSchema |-> Nil,
             tableName |-> Nil, columnName |-> Nil, tableType |-> <<>>]
      [] op = "DoGetDBSchemas" ->
            [depth |-> "dbschemas", catalog |-> cmd.catalog,
             dbSchema |-> cmd.dbSchemaFilterPattern,
             tableName |-> Nil, columnName |-> Nil, tableType |-> <<>>]
      [] op = "DoGetTables" ->
            [depth |-> "tables", catalog |-> cmd.catalog,
             dbSchema |-> cmd.dbSchemaFilterPattern,
             tableName |-> cmd.tableNameFilterPattern,
             columnName |-> Nil, tableType |-> cmd.tableTypes]

\* The backend's side of GetObjects on the objects t it holds: a nil filter
\* keeps everything, a name keeps the objects of that name, and nothing lies
\* below the depth asked for.
Matches(pattern, name) == pattern = Nil \/ pattern = name
GetObjects(args, t) ==
    LET KeepTable(x) == /\ Matches(args.tableName, x.name)
                        /\ (args.tableType = <<>>
                            \/ \E n \in DOMAIN args.tableType : args.tableType[n] = x.type)
        KeepSchema(x) == Matches(args.dbSchema, x.name)
        KeepCatalog(x) == Matches(args.catalog, x.name)
        Tables(s) == IF args.depth = "tables" THEN SelectSeq(s.tables, KeepTable) ELSE <<>>
        Schemas(c) == IF args.depth = "catalogs" THEN <<>>
                      ELSE LET kept == SelectSeq(c.schemas, KeepSchema)
                           IN  [j \in DOMAIN kept |->
                                   [name |-> kept[j].name, tables |-> Tables(kept[j])]]
        catalogs == SelectSeq(t, KeepCatalog)
    IN  [i \in DOMAIN catalogs |->
            [name |-> catalogs[i].name, schemas |-> Schemas(catalogs[i])]]

\* DoGetCatalogs from its GetObjects call (line 78, nil for every filter) to
\* its record, on a backend that holds tree.
DoGetCatalogs_Objects ==
    /\ record = NoRecord
    /\ \E args \in {GetObjectsArgs("DoGetCatalogs", NoCmd)} :
       \E returned \in {GetObjects(args, tree)} :
       \E batch \in {NewRecord(<<RecordBatch(returned).catalogNameCol>>, 0)} :
          record' = [depth |-> args.depth, damage |-> "none",
                     rows |-> [i \in DOMAIN returned |-> [catalog |-> returned[i].name]],
                     err |-> "", panicked |-> ~batch.valid, steps |-> <<>>,
                     cols |-> batch.cols, nrows |-> batch.nrows,
                     cmd |-> NoCmd, args |-> args, returned |-> returned]
    /\ UNCHANGED <<db, queries, crashed, drawn, tickets, call, resp, stream, tree>>

\* DoGetDBSchemas from its GetObjects call (line 117) to its record.
DoGetDBSchemas_Objects(cmd) ==
    /\ record = NoRecord
    /\ \E args \in {GetObjectsArgs("DoGetDBSchemas", cmd)} :
       \E returned \in {GetObjects(args, tree)} :
       \E rows \in {FlattenDBSchemas(RecordBatch(returned))} :
       \E steps \in {BuilderSteps(2, [n \in DOMAIN rows |-> SchemaRowValues(rows[n])])} :
       \E cols \in {NewArrays(steps[Len(steps)])} :
       \E batch \in {NewRecord(cols, Len(cols[1]))} :
          record' = [depth |-> args.depth, damage |-> "none", rows |-> rows,
                     err |-> "", panicked |-> ~batch.valid, steps |-> steps,
                     cols |-> batch.cols, nrows |-> batch.nrows,
                     cmd |-> cmd, args |-> args, returned |-> returned]
    /\ UNCHANGED <<db, queries, crashed, drawn, tickets, call, resp, stream, tree>>

\* DoGetTables from its GetObjects call (line 345) to its record.
DoGetTables_Objects(cmd) ==
    /\ record = NoRecord
    /\ \E args \in {GetObjectsArgs("DoGetTables", cmd)} :
       \E returned \in {GetObjects(args, tree)} :
       \E rows \in {FlattenTables(RecordBatch(returned))} :
       \E steps \in {BuilderSteps(4, [n \in DOMAIN rows |-> TableRowValues(rows[n])])} :
       \E cols \in {NewArrays(steps[Len(steps)])} :
       \E batch \in {NewRecord(cols, Len(cols[1]))} :
          record' = [depth |-> args.depth, damage |-> "none", rows |-> rows,
                     err |-> "", panicked |-> ~batch.valid, steps |-> steps,
                     cols |-> batch.cols, nrows |-> batch.nrows,
                     cmd |-> cmd, args |-> args, returned |-> returned]
    /\ UNCHANGED <<db, queries, crashed, drawn, tickets, call, resp, stream, tree>>

FilterNext ==
    \/ DoGetCatalogs_Objects
    \/ \E cmd \in GetDBSchemasCmds : DoGetDBSchemas_Objects(cmd)
    \/ \E cmd \in GetTablesCmds : DoGetTables_Objects(cmd)

FilterSpec == FlattenInit /\ [][FilterNext]_vars

\* -------------------------------------------------------------- properties

\* The producer of task r's stream can take a step.
ProducerCanStep(r) ==
    ENABLED (Goroutine_Next(r) \/ Goroutine_Send(r)
             \/ DoGetCatalogs_Next(r) \/ DoGetCatalogs_Send(r))

\* The consumer of task r's stream can receive or see the close.
ConsumerCanStep(r) == ENABLED (Consumer_Recv(r) \/ Consumer_Closed(r))

\* What the request has opened is closed or released exactly once.
ReleasedOnce(use) ==
    /\ use.connOpen = 1 /\ use.connClose = 1
    /\ use.stmtOpen = 1 /\ use.stmtClose = 1
    /\ use.rdrOpen = 1 /\ use.rdrRelease = 1

\* Batches pulled from the reader and not yet received by the consumer.
InFlight(s) == Len(s.pulled) - Len(s.recvd)

GoroutineOps == {"DoGetDBSchemas", "DoGetTables", "DoGetStatement"}

\* C1: a DoGetStatement on a handle that an earlier successful
\* GetFlightInfoStatement(T) returned does not fail for the handle, and every
\* text it submits to the backend is T itself.
C1_HandleRoundTrip ==
    (resp.op = "DoGetStatement" /\ resp.known) =>
        /\ resp.res.err # ErrUnknownHandle(resp.handle)
        /\ \A i \in DOMAIN resp.res.sqls : resp.res.sqls[i] = tickets[resp.handle]

\* C2: a DoGetStatement whose lookup finds the handle absent from the registry
\* returns the error "unknown statement handle" with no schema, no stream and
\* no backend use, and leaves the registry as it was, whatever s.db is.
C2_UnknownHandle ==
    [][\A r \in Reqs :
          (/\ call[r].pc = "mapaccess"
           /\ call'[r].pc = "idle"
           /\ call[r].handle \notin DOMAIN queries)
          => /\ resp'.op = "DoGetStatement"
             /\ resp'.res = ErrResult(ErrUnknownHandle(call[r].handle))
             /\ stream'[r] = NoStream
             /\ queries' = queries]_vars

\* C2 happens: the unknown handle was answered on a server without database.
C2_Witness ==
    /\ db = "nil"
    /\ resp.op = "DoGetStatement"
    /\ resp.handle = UnknownHandle
    /\ resp.res.err = ErrUnknownHandle(UnknownHandle)

\* C3: after a GetFlightInfoStatement that failed in its probe, the handle of
\* that request is not in the registry.
C3_ProbeFailureRegistersNothing ==
    (resp.op = "GetFlightInfoStatement" /\ resp.res.err = "backend: ExecuteQuery")
        => resp.handle \notin DOMAIN queries

\* C4: no task writes the map while another task reads or writes it, and
\* with no access in progress every returned handle maps to its text.
C4_RegistrySerialized ==
    /\ \A w \in Writers : Writers \cup Readers = {w}
    /\ (Writers \cup Readers = {} /\ ~crashed) =>
          \A h \in DOMAIN tickets : h \in DOMAIN queries /\ queries[h] = tickets[h]

\* C5: in a DoGetStatement stream nothing is released twice, and when the
\* consumer has read the channel to its close, connection, statement and
\* reader have each been released exactly once.
C5_ReleasedOnceWhenConsumed ==
    \A r \in Reqs :
        stream[r].op = "DoGetStatement" =>
            /\ stream[r].use.connClose <= 1
            /\ stream[r].use.stmtClose <= 1
            /\ stream[r].use.rdrRelease <= 1
            /\ stream[r].cons = "closed" => ReleasedOnce(stream[r].use)

\* C5 happens: a DoGetStatement stream of MaxBatches batches read to its close.
C5_Witness ==
    \E r \in Reqs :
        /\ stream[r].op = "DoGetStatement"
        /\ stream[r].cons = "closed"
        /\ Len(stream[r].recvd) = MaxBatches
        /\ stream[r].use.rdrRelease = 1

\* C6: when the consumer of a DoGetStatement stream has stopped and the
\* producer can do nothing more, connection, statement and reader have each
\* been released exactly once.
C6_ReleasedOnceWhenStopped ==
    \A r \in Reqs :
        (/\ stream[r].op = "DoGetStatement"
         /\ stream[r].cons = "stopped"
         /\ ~ProducerCanStep(r))
        => ReleasedOnce(stream[r].use)

\* C7: when the consumer of a goroutine-produced stream has stopped and the
\* producer can do nothing more, the producer has terminated: it is not
\* waiting to send.
C7_ProducerTerminates ==
    \A r \in Reqs :
        (/\ stream[r].op \in GoroutineOps
         /\ stream[r].cons = "stopped"
         /\ ~ProducerCanStep(r))
        => stream[r].gpc = "done"

\* C8: what the consumer of a DoGetStatement stream has received is a prefix
\* of what the reader produced, in the reader's order, and all of it once the
\* consumer has seen the close.
C8_ReceivedIsProduced ==
    \A r \in Reqs :
        stream[r].op = "DoGetStatement" =>
            /\ Len(stream[r].recvd) <= Len(stream[r].pulled)
            /\ stream[r].recvd = SubSeq(stream[r].pulled, 1, Len(stream[r].recvd))
            /\ stream[r].cons = "closed" => stream[r].recvd = stream[r].pulled

\* C8 happens: two batches produced, both received in order, channel closed.
C8_Witness ==
    \E r \in Reqs :
        /\ stream[r].op = "DoGetStatement"
        /\ stream[r].cons = "closed"
        /\ stream[r].pulled = <<1, 2>>
        /\ stream[r].recvd = <<1, 2>>

\* C9: the channel of a stream is closed at most once, with no batch held
\* back or sent after the close, and when the consumer has not stopped and
\* neither side can move the channel has been closed and every batch of the
\* reader delivered.
C9_ClosedOnceAfterLastBatch ==
    \A r \in Reqs :
        stream[r].op # "none" =>
            /\ stream[r].closes <= 1
            /\ stream[r].closes = 1 => (stream[r].gpc = "done" /\ stream[r].hand = 0)
            /\ (/\ stream[r].cons # "stopped"
                /\ ~ProducerCanStep(r)
                /\ ~ConsumerCanStep(r))
               => (stream[r].closes = 1 /\ stream[r].recvd = stream[r].pulled)

\* C10: in every stream at most one batch is pulled from the reader and not
\* yet received by the consumer.
C10_Backpressure ==
    \A r \in Reqs : stream[r].op # "none" => InFlight(stream[r]) <= 1

\* The schemas of a tree in tree order, each with its catalog.
TreeSchemaRows(t) ==
    Flat([i \in 1..Len(t) |->
            [j \in 1..Len(t[i].schemas) |->
                [catalog |-> t[i].name, schema |-> t[i].schemas[j].name]]])

\* The tables of a tree in tree order, each with its schema and catalog.
TreeTableRows(t) ==
    Flat([i \in 1..Len(t) |->
            Flat([j \in 1..Len(t[i].schemas) |->
                    [k \in 1..Len(t[i].schemas[j].tables) |->
                        [catalog |-> t[i].name,
                         schema |-> t[i].schemas[j].name,
                         table |-> t[i].schemas[j].tables[k].name,
                         type |-> t[i].schemas[j].tables[k].type]]])])

\* The places of the tables of a tree.
TablePlaces(t) ==
    UNION {UNION {{<<i, j, k>> : k \in 1..Len(t[i].schemas[j].tables)} :
                    j \in 1..Len(t[i].schemas)} :
             i \in 1..Len(t)}

\* C11: the flat record DoGetTables builds from a well-formed batch has one
\* row per table of the tree, in tree order, each with the table's name and
\* type and the names of the schema and the catalog that contain it.
C11_TablesFlattened ==
    (record.depth = "tables" /\ record.damage = "none") =>
        /\ ~record.panicked
        /\ Len(record.rows) = Cardinality(TablePlaces(tree))
        /\ record.rows = TreeTableRows(tree)

\* C11 happens: tables of two catalogs were flattened.
C11_Witness ==
    /\ record.depth = "tables"
    /\ record.damage = "none"
    /\ \E a, b \in DOMAIN record.rows : record.rows[a].catalog # record.rows[b].catalog

\* C12: the flat record DoGetDBSchemas builds from a well-formed batch has
\* one row per schema of the tree, in tree order, each with the name of the
\* catalog whose range of children contains the schema.
C12_SchemasFlattened ==
    (record.depth = "dbschemas" /\ record.damage = "none") =>
        /\ ~record.panicked
        /\ record.rows = TreeSchemaRows(tree)
        /\ LET rec == RecordBatch(tree)
           IN  \A n \in DOMAIN record.rows :
                  \E i \in DOMAIN tree :
                      /\ record.rows[n].catalog = tree[i].name
                      /\ rec.schemasOffsets[i] <= n - 1
                      /\ n - 1 < rec.schemasOffsets[i + 1]

\* C12 happens: schemas of two catalogs were flattened.
C12_Witness ==
    /\ record.depth = "dbschemas"
    /\ record.damage = "none"
    /\ \E a, b \in DOMAIN record.rows : record.rows[a].catalog # record.rows[b].catalog

\* The tree without its catalogs of no schemas.
NonEmptyCatalog(c) == c.schemas # <<>>
WithoutEmptyCatalogs(t) == SelectSeq(t, NonEmptyCatalog)

\* The tree without its schemas of no tables, and then without the catalogs
\* left with no schemas.
NonEmptySchema(sch) == sch.tables # <<>>
WithoutEmptySchemas(t) ==
    WithoutEmptyCatalogs(
        [i \in 1..Len(t) |-> [t[i] EXCEPT !.schemas = SelectSeq(@, NonEmptySchema)]])

\* C13: a catalog of no schemas (a schema of no tables) has no flat row, and
\* the rows are those of the tree without the empty parents.
C13_EmptyParents ==
    /\ (record.depth = "dbschemas" /\ record.damage = "none") =>
          /\ \A i \in DOMAIN tree : \A n \in DOMAIN record.rows :
                tree[i].schemas = <<>> => record.rows[n].catalog # tree[i].name
          /\ record.rows = FlattenDBSchemas(RecordBatch(WithoutEmptyCatalogs(tree)))
    /\ (record.depth = "tables" /\ record.damage = "none") =>
          /\ \A i \in DOMAIN tree : \A j \in DOMAIN tree[i].schemas :
                \A n \in DOMAIN record.rows :
                   tree[i].schemas[j].tables = <<>>
                      => record.rows[n].schema # tree[i].schemas[j].name
          /\ record.rows = FlattenTables(RecordBatch(WithoutEmptySchemas(tree)))

\* C13 happens: the first catalog has no schemas, a later one has, and its
\* schemas were flattened.
C13_Witness ==
    /\ record.depth = "dbschemas"
    /\ record.damage = "none"
    /\ Len(tree) >= 2
    /\ tree[1].schemas = <<>>
    /\ record.rows # <<>>
    /\ record.rows[1].catalog = tree[2].name

\* A range of the batch's offsets decreases or extends past the child array
\* (the table ranges are read at table depth only).
Malformed(rec, depth) ==
    \/ \E i \in 1..(Len(rec.schemasOffsets) - 1) :
          \/ rec.schemasOffsets[i] > rec.schemasOffsets[i + 1]
          \/ rec.schemasOffsets[i + 1] > Len(rec.schemaNameCol)
    \/ /\ depth = "tables"
       /\ \E j \in 1..(Len(rec.tablesOffsets) - 1) :
             \/ rec.tablesOffsets[j] > rec.tablesOffsets[j + 1]
             \/ rec.tablesOffsets[j + 1] > Len(rec.tableNameCol)

\* C14: the flattening of a batch with malformed offsets reports an error,
\* does not panic and reads nothing outside the child arrays.
C14_MalformedOffsetsReported ==
    (/\ record.depth # "none"
     /\ Malformed(Damaged(RecordBatch(tree), record.damage), record.depth))
    => /\ record.err # ""
       /\ ~record.panicked
       /\ ~ReadOutOfRange(Damaged(RecordBatch(tree), record.damage), record.depth)

\* The operations that need the backend.
BackendOps == {"DoGetCatalogs", "DoGetDBSchemas", "DoGetTables",
               "GetFlightInfoStatement", "GetSchemaStatement", "DoGetStatement"}
DescribeOps == {"GetFlightInfoStatement", "GetSchemaStatement"}
DoGetOps == {"DoGetCatalogs", "DoGetDBSchemas", "DoGetTables", "DoGetStatement"}

\* C15: on a server without database no request crashes the process, and
\* every operation that needs the backend (DoGetStatement: with a registered
\* handle) answers "database is not initialized" with no schema and no stream.
C15_NilDatabase ==
    db = "nil" =>
        /\ ~crashed
        /\ \A r \in Reqs : call[r].pc # "panicked"
        /\ (/\ resp.op \in BackendOps
            /\ resp.op = "DoGetStatement" => resp.handle \in DOMAIN queries)
           => resp.res = ErrResult(ErrDatabase)

\* C17: a describe whose probe the backend rejects returns an error of the
\* backend (that of the probe when the probe was submitted), with no schema
\* and no ticket.
C17_ProbeErrorReturned ==
    (resp.op \in DescribeOps /\ db = "open"
        /\ ~BackendAccepts(SchemaQuery(resp.query))
        /\ resp.res.err # "rand: Read")
    => /\ resp.res.err \in {"backend: Open", "backend: NewStatement",
                            "backend: SetSqlQuery", "backend: ExecuteQuery"}
       /\ resp.res.sqls # <<>> =>
             /\ resp.res.sqls = <<SchemaQuery(resp.query)>>
             /\ resp.res.err \in {"backend: SetSqlQuery", "backend: ExecuteQuery"}
       /\ resp.res.schema = <<>>
       /\ resp.res.ticket = <<>>
       /\ ~resp.res.ch

\* C17 happens: GetSchemaStatement on the query over the missing table
\* returned the error of ExecuteQuery.
C17_Witness ==
    /\ resp.op = "GetSchemaStatement"
    /\ resp.query = QueryMissing
    /\ resp.res.sqls = <<SchemaQuery(QueryMissing)>>
    /\ resp.res.err = "backend: ExecuteQuery"

\* A chunk that carries an error: the producers send StreamChunk{Data: rec}
\* only, chunks numbered from 1.
IsErrChunk(x) == x < 1

\* C18: when the reader of a DoGetStatement stream failed and the consumer
\* has read the channel to its close, the last thing it received is an error.
C18_ReaderErrorSignalled ==
    \A r \in Reqs :
        (/\ stream[r].op = "DoGetStatement"
         /\ stream[r].rerr
         /\ stream[r].cons = "closed")
        => /\ stream[r].recvd # <<>>
           /\ IsErrChunk(stream[r].recvd[Len(stream[r].recvd)])

\* C19: a Do* handler that returns an error returns no schema and no
\* channel, and no stream of it exists.
C19_NoPartialData ==
    (resp.op \in DoGetOps /\ resp.res.err # "") =>
        /\ resp.res.schema = <<>>
        /\ ~resp.res.ch
        /\ stream[resp.req] = NoStream

\* C19 happens: DoGetTables returned the error of GetObjects.
C19_Witness ==
    /\ resp.op = "DoGetTables"
    /\ resp.res.err = "backend: GetObjects"

C21_OwnConnectionClosedOnce ==
    /\ resp.op \in BackendOps =>
          /\ resp.res.use.connOpen <= 1
          /\ resp.res.use.connClose = resp.res.use.connOpen
          /\ (resp.res.sqls # <<>> \/ resp.res.ch) => resp.res.use.connOpen = 1
    /\ \A r \in Reqs :
          stream[r].op # "none" =>
             /\ stream[r].use.connOpen = 1
             /\ stream[r].use.connClose <= 1
             /\ (~ProducerCanStep(r) /\ ~ConsumerCanStep(r))
                   => stream[r].use.connClose = 1

\* C22: no request repeats a backend step: a returning handler has opened at
\* most one connection, one statement and one reader and submitted at most
\* one text, and when a step failed the request ended with that step's error
\* and nothing after that step was attempted.
C22_NoRetries ==
    resp.op \in BackendOps =>
        LET u == resp.res.use
        IN  /\ u.connOpen <= 1 /\ u.stmtOpen <= 1 /\ u.rdrOpen <= 1
            /\ Len(resp.res.sqls) <= 1
            /\ resp.res.err = "backend: Open" =>
                  (u.connOpen = 0 /\ u.stmtOpen = 0 /\ u.rdrOpen = 0
                   /\ resp.res.sqls = <<>>)
            /\ resp.res.err = "backend: NewStatement" =>
                  (u.connOpen = 1 /\ u.stmtOpen = 0 /\ u.rdrOpen = 0
                   /\ resp.res.sqls = <<>>)
            /\ resp.res.err \in {"backend: SetSqlQuery", "backend: ExecuteQuery"} =>
                  (u.connOpen = 1 /\ u.stmtOpen = 1 /\ u.rdrOpen = 0
                   /\ Len(resp.res.sqls) = 1)
            /\ resp.res.err = "backend: GetObjects" =>
                  (u.connOpen = 1 /\ u.stmtOpen = 0 /\ u.rdrOpen = 0)
            /\ resp.res.err # "" => (~resp.res.ch /\ resp.res.schema = <<>>)

\* C22 happens: DoGetStatement found its query, opened a connection, and the
\* statement could not be created: the request ended there.
C22_Witness ==
    /\ resp.op = "DoGetStatement"
    /\ resp.res.err = "backend: NewStatement"
    /\ resp.res.use.connOpen = 1
    /\ resp.res.use.stmtOpen = 0
    /\ resp.res.sqls = <<>>

\* C23: whenever the producer of a stream is about to call reader.Next(), the
\* connection and the statement its reader came from have not been closed.
C23_NoReadAfterClose ==
    \A r \in Reqs :
        (stream[r].op # "none" /\ stream[r].gpc = "next" /\ ProducerCanStep(r))
        => (stream[r].use.connClose = 0 /\ stream[r].use.stmtClose = 0)

\* C24: DoGetCatalogs is never stuck in its loop: while the handler has not
\* returned it can take its next step, a reader.Next() or a send that
\* completes.
C24_CatalogsReturns ==
    \A r \in Reqs :
        (~crashed /\ call[r].op = "DoGetCatalogs" /\ call[r].pc = "loop")
        => ProducerCanStep(r)

\* C25: a describing call that submits a text submits one text, the client's
\* query Q wrapped as SELECT * FROM (Q) WHERE 1=0; on success its schema is
\* the schema of the reader of that text; it pulls no batch from that reader
\* and hands out no channel, and releases the reader it got.
C25_ProbeText ==
    resp.op \in DescribeOps =>
        /\ resp.res.sqls \in
              {<<>>, <<"SELECT * FROM (" \o resp.query \o ") WHERE 1=0">>}
        /\ resp.res.err = "" =>
              /\ resp.res.sqls # <<>>
              /\ resp.res.schema = BackendSchema(resp.res.sqls[1])
              /\ resp.res.use.rdrOpen = 1
        /\ ~resp.res.ch
        /\ stream[resp.req].pulled = <<>>
        /\ resp.res.use.rdrRelease = resp.res.use.rdrOpen

\* C25 happens: GetFlightInfoStatement of the test's query succeeded on the
\* wrapped text, with the columns id, name.
C25_Witness ==
    /\ resp.op = "GetFlightInfoStatement"
    /\ resp.res.err = ""
    /\ resp.res.sqls =
          <<"SELECT * FROM (SELECT id, name FROM test_table ORDER BY id) WHERE 1=0">>
    /\ resp.res.schema = <<"id", "name">>

\* C26: a GetFlightInfoStatement(T) that returns without error has added to
\* the registry one entry, T under a handle that was no key of it before and
\* that no earlier ticket carries, has left every other entry as it was, and
\* returns a ticket carrying that handle.
C26_DescribeAddsOneEntry ==
    [][\A r \in Reqs :
          (/\ call[r].pc = "mapassign"
           /\ resp'.req = r
           /\ resp'.op = "GetFlightInfoStatement"
           /\ resp'.res.err = "")
          => /\ call[r].handle \notin DOMAIN queries
             /\ call[r].handle \notin DOMAIN tickets
             /\ DOMAIN queries' = DOMAIN queries \cup {call[r].handle}
             /\ queries'[call[r].handle] = call[r].query
             /\ \A h \in DOMAIN queries : queries'[h] = queries[h]
             /\ GetStatementHandle(resp'.res.ticket) = call[r].handle]_vars

\* C27: a step that changes the registry is the map write of a
\* GetFlightInfoStatement; a step in which any other operation returns leaves
\* the registry as it was.
C27_OnlyDescribeWrites ==
    [][/\ queries' # queries =>
             \E r \in Reqs : /\ call[r].op = "GetFlightInfoStatement"
                             /\ call[r].pc = "mapassign"
                             /\ call'[r].pc = "idle"
       /\ (resp'.op \notin {"none", "GetFlightInfoStatement"}) => queries' = queries]_vars

\* C27 happens: GetSchemaStatement has returned a schema on a server whose
\* registry holds an entry, and the registry holds what the tickets say.
C27_Witness ==
    /\ resp.op = "GetSchemaStatement"
    /\ resp.res.err = ""
    /\ DOMAIN queries # {}
    /\ queries = tickets

\* C28: on a server with no database every GetFlightInfoStatement returns
\* "database is not initialized" with no ticket and no handle; no random
\* bytes are drawn, no map write is started and the registry stays empty.
C28_DescribeWithoutDatabase ==
    db = "nil" =>
        /\ resp.op = "GetFlightInfoStatement" =>
              /\ resp.res.err = "database is not initialized"
              /\ resp.res.ticket = <<>>
              /\ resp.handle = ""
        /\ drawn = {}
        /\ queries = <<>>
        /\ \A r \in Reqs : call[r].pc # "mapassign"

\* C28 happens: GetFlightInfoStatement was refused on a server without
\* database.
C28_Witness ==
    /\ db = "nil"
    /\ resp.op = "GetFlightInfoStatement"
    /\ resp.query = QueryOK
    /\ resp.res.err = ErrDatabase

\* C29: every record a metadata operation builds declares as its number of
\* rows the length of each of its columns; a catalog record made from n
\* catalog names declares n rows.
C29_RowCountIsColumnLength ==
    (record.depth # "none" /\ ~record.panicked) =>
        /\ \A c \in DOMAIN record.cols : Len(record.cols[c]) = record.nrows
        /\ record.depth = "catalogs" => record.nrows = Len(tree)

\* C30: in DoGetDBSchemas and DoGetTables, before the first flat row, after
\* each flat row and in the finished record every builder holds the same
\* number of values, one per flat row so far, and the values at row i of the
\* columns are those of flat row i.
C30_BuildersInLockstep ==
    record.depth \in {"dbschemas", "tables"} =>
        /\ Len(record.steps) = Len(record.rows) + 1
        /\ \A n \in DOMAIN record.steps :
              \A c \in DOMAIN record.steps[n] : Len(record.steps[n][c]) = n - 1
        /\ Len(record.cols) = IF record.depth = "tables" THEN 4 ELSE 2
        /\ \A c \in DOMAIN record.cols : Len(record.cols[c]) = Len(record.rows)
        /\ \A i \in DOMAIN record.rows :
              /\ record.cols[1][i] = record.rows[i].catalog
              /\ record.cols[2][i] = record.rows[i].schema
              /\ record.depth = "tables" =>
                    /\ record.cols[3][i] = record.rows[i].table
                    /\ record.cols[4][i] = record.rows[i].type

\* C30 happens: DoGetTables built a record of several rows from a well-formed
\* batch with tables under two catalogs.
C30_Witness ==
    /\ record.depth = "tables"
    /\ record.damage = "none"
    /\ Len(record.cols) = 4
    /\ Len(record.cols[4]) >= 2
    /\ \E a, b \in DOMAIN record.cols[1] : record.cols[1][a] # record.cols[1][b]

\* C31: when the consumer of a DoGetCatalogs, DoGetDBSchemas or DoGetTables
\* stream has read the channel to its close, the reader of GetObjects has
\* been released exactly once.
C31_MetadataReaderReleased ==
    \A r \in Reqs :
        (/\ stream[r].op \in {"DoGetCatalogs", "DoGetDBSchemas", "DoGetTables"}
         /\ stream[r].cons = "closed")
        => (stream[r].use.rdrOpen = 1 /\ stream[r].use.rdrRelease = 1)

\* C32: a describing call that returns has closed the connection and the
\* statement and released the probe reader once each if it opened them, and
\* not at all otherwise; a successful one opened and released all three.
C32_DescribeReleasesAll ==
    resp.op \in DescribeOps =>
        LET u == resp.res.use
        IN  /\ u.connClose = u.connOpen /\ u.connOpen \in {0, 1}
            /\ u.stmtClose = u.stmtOpen /\ u.stmtOpen \in {0, 1}
            /\ u.rdrRelease = u.rdrOpen /\ u.rdrOpen \in {0, 1}
            /\ resp.res.err = "" => ReleasedOnce(u)

\* C32 happens: GetSchemaStatement returned a schema, with connection,
\* statement and reader each released once.
C32_Witness ==
    /\ resp.op = "GetSchemaStatement"
    /\ resp.res.err = ""
    /\ resp.res.schema # <<>>
    /\ ReleasedOnce(resp.res.use)

\* The (catalog, schema) pairs in the first two columns of the record
\* DoGetDBSchemas builds from a well-formed batch of tree t.
DBSchemaPairs(t) ==
    LET rows == FlattenDBSchemas(RecordBatch(t))
        steps == BuilderSteps(2, [n \in DOMAIN rows |-> SchemaRowValues(rows[n])])
        cols == NewArrays(steps[Len(steps)])
    IN  {<<cols[1][n], cols[2][n]>> : n \in DOMAIN cols[1]}

\* C33: for one object tree, the records of the three depths have 1, 2 and 4
\* columns, the first column everywhere a catalog name of the tree, and every
\* pair of the first two columns of a DoGetTables row is the pair of the two
\* columns of some DoGetDBSchemas row.
C33_DepthsConsistent ==
    (record.depth # "none" /\ record.damage = "none") =>
        /\ Len(record.cols) = CASE record.depth = "catalogs" -> Len(SchemaCatalogs)
                                [] record.depth = "dbschemas" -> Len(SchemaDBSchemas)
                                [] record.depth = "tables" -> Len(SchemaTables)
        /\ Len(record.cols) \in {1, 2, 4}
        /\ \A i \in DOMAIN record.cols[1] :
              \E c \in DOMAIN tree : record.cols[1][i] = tree[c].name
        /\ record.depth = "dbschemas" =>
              {<<record.cols[1][i], record.cols[2][i]>> : i \in DOMAIN record.cols[1]}
                  = DBSchemaPairs(tree)
        /\ record.depth = "tables" =>
              {<<record.cols[1][i], record.cols[2][i]>> : i \in DOMAIN record.cols[1]}
                  \subseteq DBSchemaPairs(tree)

\* C33 happens: DoGetTables built rows under two different schemas of a tree
\* that also has a schema without tables, which only DoGetDBSchemas shows.
C33_Witness ==
    /\ record.depth = "tables"
    /\ record.damage = "none"
    /\ \E a, b \in DOMAIN record.cols[2] : record.cols[2][a] # record.cols[2][b]
    /\ {<<record.cols[1][i], record.cols[2][i]>> : i \in DOMAIN record.cols[1]}
          # DBSchemaPairs(tree)

\* The rows a tree holds at the depth of op.
TreeRowsAt(op, t) ==
    IF op = "DoGetDBSchemas" THEN TreeSchemaRows(t) ELSE TreeTableRows(t)

\* C34: in a DoGetDBSchemas or DoGetTables stream the k-th record received
\* is the one built from the k-th batch of the reader and holds the rows of
\* that batch alone, none when the batch has no children; every batch read
\* has been sent before the next is read, and all once the channel is closed.
C34_OneRecordPerBatch ==
    \A r \in Reqs :
        stream[r].op \in MetadataGoroutineOps =>
            LET s == stream[r]
            IN  /\ s.gpc \in {"next", "done"} => Len(s.recvd) = Len(s.pulled)
                /\ s.gpc = "send" => Len(s.recvd) = Len(s.pulled) - 1
                /\ \A k \in DOMAIN s.recvd :
                      /\ s.recvd[k].batch = k
                      /\ s.recvd[k].nrows = Len(TreeRowsAt(s.op, s.pulled[k]))
                      /\ \A c \in DOMAIN s.recvd[k].cols :
                            Len(s.recvd[k].cols[c]) = s.recvd[k].nrows
                      /\ \A i \in DOMAIN s.recvd[k].cols[1] :
                            /\ s.recvd[k].cols[1][i]
                                  = TreeRowsAt(s.op, s.pulled[k])[i].catalog
                            /\ s.recvd[k].cols[2][i]
                                  = TreeRowsAt(s.op, s.pulled[k])[i].schema

\* C34 happens: a DoGetTables stream read to its close delivered a record of
\* zero rows for a batch without tables, then a record with the tables of the
\* next batch.
C34_Witness ==
    \E r \in Reqs :
        /\ stream[r].op = "DoGetTables"
        /\ stream[r].cons = "closed"
        /\ Len(stream[r].recvd) = 2
        /\ stream[r].recvd[1].nrows = 0
        /\ stream[r].recvd[2].nrows = 2

\* C35: with the streams of several DoGetStatement requests in progress, a
\* step changes the channel, the batches received and the close of one
\* stream at most; what a consumer has then received is a prefix, in order,
\* of the batches of its own reader, and all of them once its channel is
\* closed.
C35_StreamsIndependent ==
    [][/\ \A r, x \in Reqs :
             (r # x /\ stream'[r] # stream[r]) => stream'[x] = stream[x]
       /\ \A r \in Reqs :
             stream'[r].op = "DoGetStatement" =>
                /\ Len(stream'[r].recvd) <= Len(stream'[r].pulled)
                /\ stream'[r].recvd = SubSeq(stream'[r].pulled, 1, Len(stream'[r].recvd))
                /\ stream'[r].closes <= 1
                /\ stream'[r].cons = "closed" => stream'[r].recvd = stream'[r].pulled]_vars

\* C35 happens: two DoGetStatement streams at the same time, one read to its
\* close with two batches, the other with one batch received and still open.
C35_Witness ==
    \E r, x \in Reqs :
        /\ r # x
        /\ stream[r].op = "DoGetStatement" /\ stream[x].op = "DoGetStatement"
        /\ stream[r].cons = "closed" /\ stream[r].recvd = <<1, 2>>
        /\ stream[x].cons = "recv" /\ stream[x].recvd = <<1>> /\ stream[x].closes = 0

\* C36: a metadata handler passes to GetObjects the filters of its command
\* and nil for the others (DoGetCatalogs: nil for all), and its record holds,
\* in order, every entry at its depth of the objects GetObjects returned.
C36_NoFilteringOfItsOwn ==
    record.depth # "none" =>
        /\ record.args.columnName = Nil
        /\ record.depth = "catalogs" =>
              /\ record.args.catalog = Nil /\ record.args.dbSchema = Nil
              /\ record.args.tableName = Nil /\ record.args.tableType = <<>>
              /\ record.cols = <<[i \in DOMAIN record.returned |-> record.returned[i].name]>>
        /\ record.depth = "dbschemas" =>
              /\ record.args.catalog = record.cmd.catalog
              /\ record.args.dbSchema = record.cmd.dbSchemaFilterPattern
              /\ record.args.tableName = Nil /\ record.args.tableType = <<>>
              /\ record.rows = TreeSchemaRows(record.returned)
        /\ record.depth = "tables" =>
              /\ record.args.catalog = record.cmd.catalog
              /\ record.args.dbSchema = record.cmd.dbSchemaFilterPattern
              /\ record.args.tableName = record.cmd.tableNameFilterPattern
              /\ record.args.tableType = record.cmd.tableTypes
              /\ record.rows = TreeTableRows(record.returned)
        /\ record.depth \in {"dbschemas", "tables"} =>
              \A i \in DOMAIN record.rows :
                 /\ record.cols[1][i] = record.rows[i].catalog
                 /\ record.cols[2][i] = record.rows[i].schema
                 /\ record.depth = "tables" =>
                       /\ record.cols[3][i] = record.rows[i].table
                       /\ record.cols[4][i] = record.rows[i].type

\* C36 happens: DoGetTables with a table name pattern on a backend that holds
\* more tables: the one table the backend returned is the one row.
C36_Witness ==
    /\ record.depth = "tables"
    /\ record.cmd.tableNameFilterPattern = "c1.s1.t1"
    /\ record.cmd.catalog = Nil
    /\ Len(TreeTableRows(tree)) > 2
    /\ record.cols[3] = <<"c1.s1.t1">>

MetadataInfoOps == {"GetFlightInfoCatalogs", "GetFlightInfoSchemas", "GetFlightInfoTables"}

\* C37: a step in which GetFlightInfoCatalogs, GetFlightInfoSchemas or
\* GetFlightInfoTables returns gives no error but one endpoint, whose ticket
\* is the command of the descriptor returned with it, and the schema of its
\* depth; it opens nothing on the backend, hands out no channel, and leaves
\* the registry, the handles drawn and every stream as they were, with or
\* without a database.
C37_MetadataFlightInfo ==
    [][resp'.op \in MetadataInfoOps =>
          /\ resp'.res.err = ""
          /\ Len(resp'.res.endpoints) = 1
          /\ resp'.res.desc \in Descs
          /\ resp'.res.endpoints[1].ticket = resp'.res.desc.cmd
          /\ resp'.res.schema =
                CASE resp'.op = "GetFlightInfoCatalogs" -> <<"catalog_name">>
                  [] resp'.op = "GetFlightInfoSchemas" ->
                        <<"catalog_name", "db_schema_name">>
                  [] resp'.op = "GetFlightInfoTables" ->
                        <<"catalog_name", "db_schema_name", "table_name", "table_type">>
          /\ resp'.res.use = NoUse /\ resp'.res.sqls = <<>> /\ ~resp'.res.ch
          /\ queries' = queries /\ drawn' = drawn /\ tickets' = tickets
          /\ stream' = stream /\ call' = call /\ crashed' = crashed]_vars

\* C37 happens: GetFlightInfoTables answered on a server without database.
C37_Witness ==
    /\ db = "nil"
    /\ resp.op = "GetFlightInfoTables"
    /\ resp.res.err = ""
    /\ resp.res.endpoints = <<[ticket |-> "cmd-2"]>>
    /\ resp.res.desc = [cmd |-> "cmd-2"]

====
